---- MODULE Spec2Model ----
(***************************************************************************)
(* Model of the server-edit route (crates/delta routes/servers/server_edit) *)
(* and of the Server / User records it reads and writes (crates/quark).     *)
(*                                                                          *)
(* One edit request is a pipeline of steps separated by the awaits of the   *)
(* handler `req`: read + permission calculation, the permission gate, the   *)
(* two mark_attachment_as_deleted calls, the validation block, the two      *)
(* attachment binds and the final Server::update.                           *)
(***************************************************************************)
EXTENDS Integers, Sequences, FiniteSets, TLC

\* ------------------------------------------------------------------------
\* Option<T>: None is the empty tuple, Some(x) the one-element tuple.
None == <<>>
Some(x) == <<x>>
IsSome(o) == o # <<>>
IsNone(o) == o = <<>>
Unwrap(o) == o[1]

\* Vec::contains
Contains(vec, item) == \E i \in 1..Len(vec) : vec[i] = item

\* ------------------------------------------------------------------------
\* Bounds of the model.
MaxSize == 2    \* size of a request (see DataEditServers)

\* ------------------------------------------------------------------------
\* Universes the inputs are drawn from.
Procs == {1, 2}
MemberChannels == <<"c1", "c2">>
RequestChannelIds == {"c1", "c2", "c9"}
CategoryIds == <<"a", "b">>
Files == {"f1", "f2", "f3"}
RoleIds == {"r1", "r2"}
UserIds == {"owner", "u2"}

Permission == {"ManageServer", "ManageChannel"}

FieldsServer == {"Description", "Categories", "SystemMessages", "Icon", "Banner"}

EventKinds == <<"user_joined", "user_left", "user_kicked", "user_banned">>
EventKindSet == {EventKinds[i] : i \in 1..Len(EventKinds)}

\* ------------------------------------------------------------------------
\* OverrideField and the capability resolver.
Compose(base, override) == (base \ override.deny) \cup override.allow

Role(name, allow, deny, rank) ==
    [name |-> name, permissions |-> [allow |-> allow, deny |-> deny], rank |-> rank]

Roles ==
    [r \in RoleIds |->
        IF r = "r1" THEN Role("server-manager", {"ManageServer"}, {}, 1)
        ELSE Role("channel-manager", {"ManageChannel"}, {}, 2)]

RECURSIVE FoldRoles(_, _, _)
FoldRoles(base, roles, held) ==
    IF held = {} THEN base
    ELSE LET lowest == CHOOSE r \in held : \A q \in held : roles[r].rank <= roles[q].rank
         IN FoldRoles(Compose(base, roles[lowest].permissions), roles, held \ {lowest})

Resolve(user, member_roles, server) ==
    IF user.id = server.owner THEN Permission
    ELSE FoldRoles(server.default_permissions, server.roles, member_roles)

\* ------------------------------------------------------------------------
\* Records of crates/quark: Category, SystemMessageChannels, Server, User.
Category(id, channels) == [id |-> id, title |-> id, channels |-> channels]

\* SystemMessageChannels::into_channel_ids: the channel ids of the entries present.
RECURSIVE IntoChannelIdsFrom(_, _)
IntoChannelIdsFrom(system_messages, i) ==
    IF i > Len(EventKinds) THEN <<>>
    ELSE (IF IsSome(system_messages[EventKinds[i]])
          THEN <<Unwrap(system_messages[EventKinds[i]])>> ELSE <<>>)
         \o IntoChannelIdsFrom(system_messages, i + 1)

IntoChannelIds(system_messages) == IntoChannelIdsFrom(system_messages, 1)

NoRouting == [k \in EventKindSet |-> None]

Server(description, categories, system_messages, icon, banner) ==
    [id |-> "s1", owner |-> "owner", name |-> "n0", description |-> description,
     channels |-> MemberChannels, categories |-> categories,
     system_messages |-> system_messages, roles |-> Roles, default_permissions |-> {},
     icon |-> icon, banner |-> banner, flags |-> None,
     nsfw |-> FALSE, analytics |-> FALSE, discoverable |-> FALSE]

\* The servers a request can find in storage, each with the lifecycle state
\* of the attachments: a server with every optional field set and its icon
\* and banner bound, and a server with none.
StoredServers ==
    { [server |-> Server(Some("d0"), Some(<<Category("a", <<"c1">>)>>),
                         Some([NoRouting EXCEPT !["user_joined"] = Some("c1")]),
                         Some("f1"), Some("f2")),
       files |-> [f \in Files |-> IF f \in {"f1", "f2"} THEN "bound" ELSE "pending"]],
      [server |-> Server(None, None, None, None, None),
       files |-> [f \in Files |-> "pending"]] }

User(id, privileged) == [id |-> id, privileged |-> privileged]

\* The acting users, each with the roles the membership lookup returns.
Actors ==
    { [user |-> User(id, priv), roles |-> rs] :
        id \in UserIds, priv \in BOOLEAN, rs \in SUBSET RoleIds }

\* ------------------------------------------------------------------------
\* DataEditServer: the request body.  The size of a request is the number
\* of its assigned fields, counting a categories list once per channel
\* reference, a routing table once per entry and a remove list once per
\* token (each at least once when present).
SeqsOfLen(S, n) == [1..n -> S]

\* Category lists over one sequence of channel references: one category
\* holding all of them, or two categories splitting them at any point.
CategoryListsOver(chs) ==
    {<<Category(CategoryIds[1], chs)>>}
    \cup {<<Category(CategoryIds[1], SubSeq(chs, 1, k)),
            Category(CategoryIds[2], SubSeq(chs, k + 1, Len(chs)))>> : k \in 0..Len(chs)}

CategoryLists(size) ==
    IF size = 1
    THEN {<<>>} \cup UNION {CategoryListsOver(chs) :
                              chs \in SeqsOfLen(RequestChannelIds, 0) \cup SeqsOfLen(RequestChannelIds, 1)}
    ELSE UNION {CategoryListsOver(chs) : chs \in SeqsOfLen(RequestChannelIds, size)}

RoutingEntries(system_messages) == Cardinality({k \in EventKindSet : IsSome(system_messages[k])})

RoutingTables(size) ==
    {sm \in [EventKindSet -> {None} \cup {Some(c) : c \in RequestChannelIds}] :
        RoutingEntries(sm) = size \/ (size = 1 /\ RoutingEntries(sm) = 0)}

RemoveLists(size) ==
    {r \in SUBSET FieldsServer : Cardinality(r) = size \/ (size = 1 /\ r = {})}

ScalarFields == {"name", "description", "icon", "banner", "flags", "discoverable", "analytics"}

Opt(size, values) == IF size = 0 THEN {None} ELSE {Some(v) : v \in values}

Scalar(present, f, value) == IF f \in present THEN Some(value) ELSE None

RequestShapes ==
    {sh \in [categories : 0..MaxSize, system_messages : 0..MaxSize, remove : 0..MaxSize,
             scalars : SUBSET ScalarFields] :
        sh.categories + sh.system_messages + sh.remove + Cardinality(sh.scalars) <= MaxSize}

DataEditServers ==
    UNION { { [name |-> Scalar(sh.scalars, "name", "n1"),
               description |-> Scalar(sh.scalars, "description", "d1"),
               icon |-> Scalar(sh.scalars, "icon", "f3"),
               banner |-> Scalar(sh.scalars, "banner", "f3"),
               categories |-> ca, system_messages |-> sm,
               flags |-> Scalar(sh.scalars, "flags", 1),
               discoverable |-> Scalar(sh.scalars, "discoverable", TRUE),
               analytics |-> Scalar(sh.scalars, "analytics", TRUE),
               remove |-> re] :
                 ca \in Opt(sh.categories, CategoryLists(sh.categories)),
                 sm \in Opt(sh.system_messages, RoutingTables(sh.system_messages)),
                 re \in Opt(sh.remove, RemoveLists(sh.remove)) }
            : sh \in RequestShapes }

\* #[validate(length(min = 1))] on remove; the other constraints bound
\* string lengths, which every value drawn here satisfies.
Validates(data) == IsSome(data.remove) => Unwrap(data.remove) # {}

\* ------------------------------------------------------------------------
\* The permission gate of req.
\* Variant: the remove test of the early return inverted.
NoFieldsRemoveInverted(data) ==
    /\ IsNone(data.name) /\ IsNone(data.description) /\ IsNone(data.icon)
    /\ IsNone(data.banner) /\ IsNone(data.system_messages) /\ IsNone(data.categories)
    /\ IsNone(data.flags) /\ IsNone(data.analytics) /\ IsNone(data.discoverable)
    /\ IsSome(data.remove)

NoFields(data) ==
    /\ IsNone(data.name) /\ IsNone(data.description) /\ IsNone(data.icon)
    /\ IsNone(data.banner) /\ IsNone(data.system_messages) /\ IsNone(data.categories)
    /\ IsNone(data.flags) /\ IsNone(data.analytics) /\ IsNone(data.discoverable)
    /\ IsNone(data.remove)

GeneralFields(data) ==
    \/ IsSome(data.name) \/ IsSome(data.description) \/ IsSome(data.icon)
    \/ IsSome(data.banner) \/ IsSome(data.system_messages) \/ IsSome(data.analytics)
    \/ IsSome(data.remove)

\* Variant: discoverable left out of the sensitive fields.
PrivilegedFieldsFlagsOnly(data) == IsSome(data.flags)

PrivilegedFields(data) == IsSome(data.flags) \/ IsSome(data.discoverable)

\* Variant: the privilege check made first.
GateChecksPrivilegedFirst(data) ==
    (IF PrivilegedFields(data) THEN <<"Privileged">> ELSE <<>>)
    \o (IF GeneralFields(data) THEN <<"ManageServer">> ELSE <<>>)
    \o (IF IsSome(data.categories) THEN <<"ManageChannel">> ELSE <<>>)

\* Variant: the categories check asks for ManageServer.
GateChecksWrongPermission(data) ==
    (IF GeneralFields(data) THEN <<"ManageServer">> ELSE <<>>)
    \o (IF PrivilegedFields(data) THEN <<"Privileged">> ELSE <<>>)
    \o (IF IsSome(data.categories) THEN <<"ManageServer">> ELSE <<>>)

\* The checks the gate makes for a request, in the order it makes them.
GateChecks(data) ==
    (IF GeneralFields(data) THEN <<"ManageServer">> ELSE <<>>)
    \o (IF PrivilegedFields(data) THEN <<"Privileged">> ELSE <<>>)
    \o (IF IsSome(data.categories) THEN <<"ManageChannel">> ELSE <<>>)

CheckHolds(check, usr, perms) ==
    IF check = "Privileged" THEN usr.privileged ELSE check \in perms

CheckError(check) ==
    CASE check = "ManageServer" -> "PermissionDenied(ManageServer)"
      [] check = "ManageChannel" -> "PermissionDenied(ManageChannel)"
      [] OTHER -> "NotPrivileged"

CheckCall(check) ==
    IF check = "Privileged" THEN <<"privileged", "user">> ELSE <<"throw_permission", check>>

\* Index of the first check that fails, 0 when all hold.
FirstFailure(checks, usr, perms) ==
    IF \A i \in 1..Len(checks) : CheckHolds(checks[i], usr, perms) THEN 0
    ELSE CHOOSE i \in 1..Len(checks) :
            /\ ~CheckHolds(checks[i], usr, perms)
            /\ \A j \in 1..(i - 1) : CheckHolds(checks[j], usr, perms)

PartialServer(data) ==
    [name |-> data.name, description |-> data.description, categories |-> data.categories,
     system_messages |-> data.system_messages, flags |-> data.flags,
     discoverable |-> data.discoverable, analytics |-> data.analytics,
     icon |-> None, banner |-> None]

RemoveContains(data, field) == IsSome(data.remove) /\ field \in Unwrap(data.remove)

\* ------------------------------------------------------------------------
\* The validation block of req.
\* Variant: the loop returns after its first iteration.
RoutingResolvesFirstOnly(system_messages, srv) ==
    LET ids == IntoChannelIds(system_messages)
    IN ids = <<>> \/ Contains(srv.channels, ids[1])

RoutingResolves(system_messages, srv) ==
    LET ids == IntoChannelIds(system_messages)
    IN \A i \in 1..Len(ids) : Contains(srv.channels, ids[i])

\* The inner loop over one category's channels: stops at the first id
\* already in channel_ids, inserts the others.
RECURSIVE CheckChannels(_, _)
CheckChannels(channels, channel_ids) ==
    IF channels = <<>> THEN [duplicate |-> FALSE, channel_ids |-> channel_ids]
    ELSE IF Head(channels) \in channel_ids
         THEN [duplicate |-> TRUE, channel_ids |-> channel_ids]
         ELSE CheckChannels(Tail(channels), channel_ids \cup {Head(channels)})

\* Variant: the retain predicate negated.
RetainInverted(channels, srv) == SelectSeq(channels, LAMBDA item : ~Contains(srv.channels, item))

Retain(channels, srv) == SelectSeq(channels, LAMBDA item : Contains(srv.channels, item))

\* Variant: the duplicate scan runs over the channels that pass the filter.
RECURSIVE CheckCategoriesRetainFirst(_, _, _)
CheckCategoriesRetainFirst(categories, channel_ids, srv) ==
    IF categories = <<>> THEN [error |-> FALSE, categories |-> <<>>]
    ELSE LET category == Head(categories)
             scan == CheckChannels(Retain(category.channels, srv), channel_ids)
         IN IF scan.duplicate THEN [error |-> TRUE, categories |-> <<>>]
            ELSE LET rest == CheckCategoriesRetainFirst(Tail(categories), scan.channel_ids, srv)
                 IN IF rest.error THEN rest
                    ELSE [error |-> FALSE,
                          categories |-> <<[category EXCEPT !.channels = Retain(category.channels, srv)]>>
                                         \o rest.categories]

\* Variant: channel_ids created inside the loop over the categories.
RECURSIVE CheckCategoriesPerCategory(_, _, _)
CheckCategoriesPerCategory(categories, channel_ids, srv) ==
    IF categories = <<>> THEN [error |-> FALSE, categories |-> <<>>]
    ELSE LET category == Head(categories)
             scan == CheckChannels(category.channels, {})
         IN IF scan.duplicate THEN [error |-> TRUE, categories |-> <<>>]
            ELSE LET rest == CheckCategoriesPerCategory(Tail(categories), {}, srv)
                 IN IF rest.error THEN rest
                    ELSE [error |-> FALSE,
                          categories |-> <<[category EXCEPT !.channels = Retain(category.channels, srv)]>>
                                         \o rest.categories]

\* The loop over the categories: [error, categories as left in partial].
RECURSIVE CheckCategories(_, _, _)
CheckCategories(categories, channel_ids, srv) ==
    IF categories = <<>> THEN [error |-> FALSE, categories |-> <<>>]
    ELSE LET category == Head(categories)
             scan == CheckChannels(category.channels, channel_ids)
         IN IF scan.duplicate THEN [error |-> TRUE, categories |-> <<>>]
            ELSE LET rest == CheckCategories(Tail(categories), scan.channel_ids, srv)
                 IN IF rest.error THEN rest
                    ELSE [error |-> FALSE,
                          categories |-> <<[category EXCEPT !.channels = Retain(category.channels, srv)]>>
                                         \o rest.categories]

\* ------------------------------------------------------------------------
\* Collaborators: attachment lifecycle and Server::update.
MarkAttachmentAsDeleted(files, id) == [files EXCEPT ![id] = "deleted"]

CanBind(files, id) == id \in DOMAIN files /\ files[id] = "pending"

BindAttachment(files, id) == [files EXCEPT ![id] = "bound"]

FieldOf(token) ==
    CASE token = "Description" -> "description"
      [] token = "Categories" -> "categories"
      [] token = "SystemMessages" -> "system_messages"
      [] token = "Icon" -> "icon"
      [] token = "Banner" -> "banner"

\* Conflict rule of the plan: a field both assigned and cleared.
Conflict(part, remove) == \E token \in remove : IsSome(part[FieldOf(token)])

\* The plan applied to an entity: the clear-set unsets, the assign-map sets,
\* every other field is left as it is.
ApplyPlan(srv, part, remove) ==
    LET cleared == [f \in DOMAIN srv |->
                      IF \E token \in remove : FieldOf(token) = f THEN None ELSE srv[f]]
    IN [f \in DOMAIN srv |->
          IF f \in DOMAIN part /\ IsSome(part[f])
          THEN (IF f \in {"name", "analytics", "discoverable"} THEN Unwrap(part[f]) ELSE part[f])
          ELSE cleared[f]]

\* ------------------------------------------------------------------------
\* State.
VARIABLES
    db_server,      \* the Server document in storage
    attachments,    \* lifecycle state of every attachment: pending, bound, deleted
    pc,             \* per request: the step of req it is at
    data,           \* per request: the DataEditServer body
    user,           \* per request: the acting User
    permissions,    \* per request: the permissions calculated for user on server
    server,         \* per request: the Server the handler read, and returns
    partial,        \* per request: the PartialServer being built
    result,         \* per request: "Ok" or the error the handler returned
    calls,          \* per request: the collaborator calls made, in order
    read            \* per request: storage and attachments as the request found them

vars == <<db_server, attachments, pc, data, user, permissions, server, partial,
          result, calls, read>>

NoData ==
    [name |-> None, description |-> None, icon |-> None, banner |-> None,
     categories |-> None, system_messages |-> None, flags |-> None,
     discoverable |-> None, analytics |-> None, remove |-> None]

Init ==
    /\ \E stored \in StoredServers :
          /\ db_server = stored.server
          /\ attachments = stored.files
          /\ server = [p \in Procs |-> stored.server]
          /\ read = [p \in Procs |-> stored]
    /\ pc = [p \in Procs |-> "idle"]
    /\ data = [p \in Procs |-> NoData]
    /\ user = [p \in Procs |-> User("owner", FALSE)]
    /\ permissions = [p \in Procs |-> {}]
    /\ partial = [p \in Procs |-> PartialServer(NoData)]
    /\ result = [p \in Procs |-> "Pending"]
    /\ calls = [p \in Procs |-> <<>>]

\* Variant: the new icon and banner are applied before the remove block.
PipelineBindFirst == <<"use_icon", "use_banner", "remove_banner", "remove_icon", "validate", "update">>

\* The steps of req after the gate, in program order, and whether a step
\* does anything for a request (a step that does nothing is passed over).
Pipeline == <<"remove_banner", "remove_icon", "validate", "use_icon", "use_banner", "update">>

\* Variant: the remove steps also run for a field that is being replaced.
RunsMarksReplaced(step, d, srv) ==
    CASE step = "remove_banner" ->
           (RemoveContains(d, "Banner") \/ IsSome(d.banner)) /\ IsSome(srv.banner)
      [] step = "remove_icon" ->
           (RemoveContains(d, "Icon") \/ IsSome(d.icon)) /\ IsSome(srv.icon)
      [] step = "validate" -> TRUE
      [] step = "use_icon" -> IsSome(d.icon)
      [] step = "use_banner" -> IsSome(d.banner)
      [] step = "update" -> TRUE

Runs(step, d, srv) ==
    CASE step = "remove_banner" -> RemoveContains(d, "Banner") /\ IsSome(srv.banner)
      [] step = "remove_icon" -> RemoveContains(d, "Icon") /\ IsSome(srv.icon)
      [] step = "validate" -> TRUE
      [] step = "use_icon" -> IsSome(d.icon)
      [] step = "use_banner" -> IsSome(d.banner)
      [] step = "update" -> TRUE

RECURSIVE StepFrom(_, _, _)
StepFrom(i, d, srv) ==
    IF Runs(Pipeline[i], d, srv) THEN Pipeline[i] ELSE StepFrom(i + 1, d, srv)

StepAfter(step, d, srv) ==
    StepFrom(1 + CHOOSE i \in 1..Len(Pipeline) : Pipeline[i] = step, d, srv)

Return(p, value) ==
    /\ pc' = [pc EXCEPT ![p] = "done"]
    /\ result' = [result EXCEPT ![p] = value]

Goto(p, step) ==
    /\ pc' = [pc EXCEPT ![p] = step]
    /\ UNCHANGED result

Call(p, name, arg) == calls' = [calls EXCEPT ![p] = Append(@, <<name, arg>>)]

\* data.validate(), target.as_server(db), perms(&user).server(&server).calc(db)
Receive(p, actor, d) ==
    /\ data' = [data EXCEPT ![p] = d]
    /\ user' = [user EXCEPT ![p] = actor.user]
    /\ read' = [read EXCEPT ![p] = [server |-> db_server, files |-> attachments]]
    /\ IF ~Validates(d)
       THEN /\ Return(p, "FailedValidation")
            /\ UNCHANGED <<server, permissions>>
       ELSE /\ server' = [server EXCEPT ![p] = db_server]
            /\ permissions' = [permissions EXCEPT ![p] = Resolve(actor.user, actor.roles, db_server)]
            /\ Goto(p, "gate")
    /\ UNCHANGED <<db_server, attachments, partial, calls>>

\* A request from any actor with any body.
Begin(p) ==
    /\ pc[p] = "idle"
    /\ \E actor \in Actors, d \in DataEditServers : Receive(p, actor, d)

\* The permission checks, then the construction of partial.
Gate(p) ==
    /\ pc[p] = "gate"
    /\ IF NoFields(data[p])
       THEN /\ Return(p, "Ok")
            /\ UNCHANGED <<calls, partial>>
       ELSE LET checks == GateChecks(data[p])
                failed == FirstFailure(checks, user[p], permissions[p])
                made == IF failed = 0 THEN checks ELSE SubSeq(checks, 1, failed)
            IN /\ calls' = [calls EXCEPT ![p] = @ \o [i \in 1..Len(made) |-> CheckCall(made[i])]]
               /\ IF failed # 0
                  THEN /\ Return(p, CheckError(checks[failed]))
                       /\ UNCHANGED partial
                  ELSE /\ partial' = [partial EXCEPT ![p] = PartialServer(data[p])]
                       /\ Goto(p, StepFrom(1, data[p], server[p]))
    /\ UNCHANGED <<db_server, attachments, data, user, permissions, server, read>>

\* Variant: the mark call returns without marking anything.
MarkDeletedNotAwaited(p, step, id) ==
    /\ pc[p] = step
    /\ Call(p, "mark_attachment_as_deleted", id)
    /\ \/ Goto(p, StepAfter(step, data[p], server[p]))
       \/ Return(p, "DatabaseError")
    /\ UNCHANGED <<db_server, attachments, data, user, permissions, server, partial, read>>

\* db.mark_attachment_as_deleted(id): succeeds, or fails with the
\* collaborator's error.
MarkDeleted(p, step, id) ==
    /\ pc[p] = step
    /\ Call(p, "mark_attachment_as_deleted", id)
    /\ \/ /\ attachments' = MarkAttachmentAsDeleted(attachments, id)
          /\ Goto(p, StepAfter(step, data[p], server[p]))
       \/ /\ Return(p, "DatabaseError")
          /\ UNCHANGED attachments
    /\ UNCHANGED <<db_server, data, user, permissions, server, partial, read>>

RemoveBanner(p) == MarkDeleted(p, "remove_banner", Unwrap(server[p].banner))

\* Variant: the icon branch marks the banner's attachment.
RemoveIconMarksBanner(p) == MarkDeleted(p, "remove_icon", Unwrap(server[p].banner))

RemoveIcon(p) == MarkDeleted(p, "remove_icon", Unwrap(server[p].icon))

\* The routing check, then the duplicate check and filter of the categories.
Validate(p) ==
    /\ pc[p] = "validate"
    /\ IF IsSome(partial[p].system_messages)
          /\ ~RoutingResolves(Unwrap(partial[p].system_messages), server[p])
       THEN /\ Return(p, "NotFound")
            /\ UNCHANGED partial
       ELSE IF IsSome(partial[p].categories)
            THEN LET checked == CheckCategories(Unwrap(partial[p].categories), {}, server[p])
                 IN IF checked.error
                    THEN /\ Return(p, "InvalidOperation")
                         /\ UNCHANGED partial
                    ELSE /\ partial' = [partial EXCEPT ![p].categories = Some(checked.categories)]
                         /\ Goto(p, StepAfter("validate", data[p], server[p]))
            ELSE /\ Goto(p, StepAfter("validate", data[p], server[p]))
                 /\ UNCHANGED partial
    /\ UNCHANGED <<db_server, attachments, data, user, permissions, server, calls, read>>

\* Variant: the bound file is written to the stored server at once.
UseFileWritesThrough(p, step, field, call) ==
    /\ pc[p] = step
    /\ LET id == Unwrap(data[p][field])
       IN /\ Call(p, call, id)
          /\ \/ /\ CanBind(attachments, id)
                /\ attachments' = BindAttachment(attachments, id)
                /\ partial' = [partial EXCEPT ![p][field] = Some(id)]
                /\ server' = [server EXCEPT ![p][field] = Some(id)]
                /\ db_server' = [db_server EXCEPT ![field] = Some(id)]
                /\ Goto(p, StepAfter(step, data[p], server[p]))
             \/ /\ ~CanBind(attachments, id)
                /\ Return(p, "NotFound")
                /\ UNCHANGED <<attachments, partial, server, db_server>>
             \/ /\ Return(p, "DatabaseError")
                /\ UNCHANGED <<attachments, partial, server, db_server>>
    /\ UNCHANGED <<data, user, permissions, read>>

\* File::use_server_icon / File::use_banner: binds a pending attachment and
\* returns it, NotFound for any other, or the collaborator's error.
UseFile(p, step, field, call) ==
    /\ pc[p] = step
    /\ LET id == Unwrap(data[p][field])
       IN /\ Call(p, call, id)
          /\ \/ /\ CanBind(attachments, id)
                /\ attachments' = BindAttachment(attachments, id)
                /\ partial' = [partial EXCEPT ![p][field] = Some(id)]
                /\ server' = [server EXCEPT ![p][field] = Some(id)]
                /\ Goto(p, StepAfter(step, data[p], server[p]))
             \/ /\ ~CanBind(attachments, id)
                /\ Return(p, "NotFound")
                /\ UNCHANGED <<attachments, partial, server>>
             \/ /\ Return(p, "DatabaseError")
                /\ UNCHANGED <<attachments, partial, server>>
    /\ UNCHANGED <<db_server, data, user, permissions, read>>

UseIcon(p) == UseFile(p, "use_icon", "icon", "use_server_icon")

UseBanner(p) == UseFile(p, "use_banner", "banner", "use_banner")

\* Variant: the commit writes the whole server the handler holds.
UpdateWholeEntity(p) ==
    /\ pc[p] = "update"
    /\ LET remove == IF IsSome(data[p].remove) THEN Unwrap(data[p].remove) ELSE {}
       IN /\ Call(p, "update", "server")
          /\ IF Conflict(partial[p], remove)
             THEN /\ Return(p, "InvalidOperation")
                  /\ UNCHANGED <<db_server, server>>
             ELSE \/ /\ db_server' = ApplyPlan(server[p], partial[p], remove)
                     /\ server' = [server EXCEPT ![p] = ApplyPlan(@, partial[p], remove)]
                     /\ Return(p, "Ok")
                  \/ /\ Return(p, "DatabaseError")
                     /\ UNCHANGED <<db_server, server>>
    /\ UNCHANGED <<attachments, data, user, permissions, partial, read>>

\* server.update(db, partial, remove.unwrap_or_default())
Update(p) ==
    /\ pc[p] = "update"
    /\ LET remove == IF IsSome(data[p].remove) THEN Unwrap(data[p].remove) ELSE {}
       IN /\ Call(p, "update", "server")
          /\ IF Conflict(partial[p], remove)
             THEN /\ Return(p, "InvalidOperation")
                  /\ UNCHANGED <<db_server, server>>
             ELSE \/ /\ db_server' = ApplyPlan(db_server, partial[p], remove)
                     /\ server' = [server EXCEPT ![p] = ApplyPlan(@, partial[p], remove)]
                     /\ Return(p, "Ok")
                  \/ /\ Return(p, "DatabaseError")
                     /\ UNCHANGED <<db_server, server>>
    /\ UNCHANGED <<attachments, data, user, permissions, partial, read>>

Step(p) ==
    \/ Begin(p)
    \/ Gate(p)
    \/ RemoveBanner(p)
    \/ RemoveIcon(p)
    \/ Validate(p)
    \/ UseIcon(p)
    \/ UseBanner(p)
    \/ Update(p)

\* One request at a time.
Next == Step(1)

Spec == Init /\ [][Next]_vars

\* ------------------------------------------------------------------------
\* Two requests in flight on the same server, their steps interleaved at
\* the await points of req.  Both come from the privileged owner and each
\* has at most one field, or one remove token, one channel reference or one
\* routing entry.
Owner == [user |-> User("owner", TRUE), roles |-> {}]

RECURSIVE ChannelReferences(_)
ChannelReferences(categories) ==
    IF categories = <<>> THEN 0
    ELSE Len(Head(categories).channels) + ChannelReferences(Tail(categories))

AtLeastOne(n) == IF n = 0 THEN 1 ELSE n

RequestSize(d) ==
    Cardinality({f \in ScalarFields : IsSome(d[f])})
    + (IF IsSome(d.categories) THEN AtLeastOne(ChannelReferences(Unwrap(d.categories))) ELSE 0)
    + (IF IsSome(d.system_messages) THEN AtLeastOne(RoutingEntries(Unwrap(d.system_messages))) ELSE 0)
    + (IF IsSome(d.remove) THEN AtLeastOne(Cardinality(Unwrap(d.remove))) ELSE 0)

SingleEdits == {d \in DataEditServers : RequestSize(d) <= 1}

BeginEdit(p) ==
    /\ pc[p] = "idle"
    /\ \E d \in SingleEdits : Receive(p, Owner, d)

NextConcurrent ==
    \E p \in Procs :
        \/ BeginEdit(p)
        \/ Gate(p)
        \/ RemoveBanner(p)
        \/ RemoveIcon(p)
        \/ Validate(p)
        \/ UseIcon(p)
        \/ UseBanner(p)
        \/ Update(p)

SpecConcurrent == Init /\ [][NextConcurrent]_vars

\* ------------------------------------------------------------------------
\* One request applied twice in succession: once request p has returned Ok
\* the same user sends the same body again as request q.
Again(q, p) ==
    /\ pc[q] = "idle"
    /\ pc[p] = "done" /\ result[p] = "Ok"
    /\ \E actor \in Actors :
          /\ actor.user = user[p]
          /\ Resolve(actor.user, actor.roles, db_server) = permissions[p]
          /\ Receive(q, actor, data[p])

NextTwice ==
    \/ Begin(1)
    \/ Again(2, 1)
    \/ \E p \in Procs :
          \/ Gate(p)
          \/ RemoveBanner(p)
          \/ RemoveIcon(p)
          \/ Validate(p)
          \/ UseIcon(p)
          \/ UseBanner(p)
          \/ Update(p)

SpecTwice == Init /\ [][NextTwice]_vars

\* ------------------------------------------------------------------------
\* Vocabulary of the properties.
Running == {1}

Done(p) == pc[p] = "done"

GateErrors == {"PermissionDenied(ManageServer)", "PermissionDenied(ManageChannel)", "NotPrivileged"}

Rejections == GateErrors \cup {"NotFound", "InvalidOperation"}

\* Storage and the attachments are as the request found them.
Untouched(p) == db_server = read[p].server /\ attachments = read[p].files

Removes(p, token) == IsSome(data[p].remove) /\ token \in Unwrap(data[p].remove)

Assigned(p) == {f \in DOMAIN data[p] : f # "remove" /\ IsSome(data[p][f])}

\* C1: a request rejected with PermissionDenied, NotPrivileged, NotFound or
\* InvalidOperation leaves every attachment's lifecycle state and every
\* stored field of the server as it found them (all checks and validation
\* come before the first attachment call and before the commit).
C1_RejectedWithoutSideEffect ==
    \A p \in Running : (Done(p) /\ result[p] \in Rejections) => Untouched(p)

\* A field is both assigned and named in the remove list.
BothAssignedAndRemoved(p) ==
    \/ IsSome(data[p].description) /\ Removes(p, "Description")
    \/ IsSome(data[p].categories) /\ Removes(p, "Categories")
    \/ IsSome(data[p].system_messages) /\ Removes(p, "SystemMessages")
    \/ IsSome(data[p].icon) /\ Removes(p, "Icon")
    \/ IsSome(data[p].banner) /\ Removes(p, "Banner")

\* C2: a request that assigns a field and also names it in the remove list
\* ends with InvalidOperation (unless the gate, an unresolved routing or
\* attachment reference, or a collaborator failure ended it first) and in
\* every case marks or binds no attachment and writes no field.
C2_ConflictRejectedWithoutSideEffect ==
    \A p \in Running :
        (Done(p) /\ BothAssignedAndRemoved(p)) =>
            /\ Untouched(p)
            /\ result[p] \notin GateErrors \cup {"NotFound", "DatabaseError"}
                  => result[p] = "InvalidOperation"

\* The request assigns flags and/or discoverable and nothing else.
OnlyPrivilegedFields(p) ==
    /\ Assigned(p) # {}
    /\ Assigned(p) \subseteq {"flags", "discoverable"}
    /\ IsNone(data[p].remove)

\* C3: a request that sets only flags and/or discoverable passes the gate
\* exactly when the user is privileged, whatever the user's permissions on
\* the server: a privileged user is asked for no server permission and the
\* request runs to its commit; any other user gets NotPrivileged and
\* nothing is written.
C3_PrivilegedFieldsGatedByPrivilegeOnly ==
    \A p \in Running :
        (Done(p) /\ OnlyPrivilegedFields(p)) =>
            /\ user[p].privileged =>
                  /\ result[p] \in {"Ok", "DatabaseError"}
                  /\ calls[p] = <<<<"privileged", "user">>, <<"update", "server">>>>
                  /\ result[p] = "Ok" =>
                        /\ IsSome(data[p].flags) => db_server.flags = data[p].flags
                        /\ IsSome(data[p].discoverable) =>
                              db_server.discoverable = Unwrap(data[p].discoverable)
            /\ ~user[p].privileged => result[p] = "NotPrivileged" /\ Untouched(p)

C3_Witness ==
    \E p \in Running :
        /\ Done(p) /\ OnlyPrivilegedFields(p) /\ IsSome(data[p].discoverable)
        /\ user[p].privileged /\ "ManageServer" \notin permissions[p]
        /\ result[p] = "Ok" /\ db_server.discoverable

\* The capability of each permission group with a field assigned or
\* cleared by the request is held.
HoldsEveryGroup(p) ==
    /\ (\/ Assigned(p) \cap {"name", "description", "icon", "banner",
                             "system_messages", "analytics"} # {}
        \/ \E t \in {"Description", "SystemMessages", "Icon", "Banner"} : Removes(p, t))
          => "ManageServer" \in permissions[p]
    /\ (IsSome(data[p].categories) \/ Removes(p, "Categories"))
          => "ManageChannel" \in permissions[p]
    /\ (IsSome(data[p].flags) \/ IsSome(data[p].discoverable)) => user[p].privileged

\* C4: a request is committed only if the user holds the capability of
\* every permission group that has a field in the assign-map or the
\* clear-set (categories, assigned or cleared: ManageChannel).
C4_CommittedOnlyWithEveryGroup ==
    \A p \in Running :
        (Done(p) /\ db_server # read[p].server) => HoldsEveryGroup(p)

OnlyCategories(p) == Assigned(p) = {"categories"} /\ IsNone(data[p].remove)

\* C5: a request that sets only categories, from a user without
\* ManageChannel, fails with PermissionDenied(ManageChannel), with or
\* without ManageServer, and the stored categories are unchanged.
C5_CategoriesNeedManageChannel ==
    \A p \in Running :
        (Done(p) /\ OnlyCategories(p) /\ "ManageChannel" \notin permissions[p]) =>
            /\ result[p] = "PermissionDenied(ManageChannel)"
            /\ db_server.categories = read[p].server.categories
            /\ Untouched(p)

C5_Witness ==
    \E p \in Running :
        /\ Done(p) /\ OnlyCategories(p)
        /\ permissions[p] = {"ManageServer"}
        /\ result[p] = "PermissionDenied(ManageChannel)"

\* C6: a request with no assigned field and no remove list makes no
\* capability check and no attachment or storage call, and returns the
\* server exactly as read, whatever the user's permissions.
C6_EmptyRequestIsNoOp ==
    \A p \in Running :
        (Done(p) /\ data[p] = NoData) =>
            /\ result[p] = "Ok"
            /\ calls[p] = <<>>
            /\ server[p] = read[p].server
            /\ Untouched(p)

C6_Witness ==
    \E p \in Running :
        /\ Done(p) /\ data[p] = NoData /\ result[p] = "Ok"
        /\ permissions[p] = {} /\ ~user[p].privileged

\* The request passed data.validate() and the permission gate.
Admitted(p) == result[p] \notin GateErrors \cup {"FailedValidation"}

Members(p) == {read[p].server.channels[i] : i \in 1..Len(read[p].server.channels)}

\* Channel c is listed in categories i and j of the list.
ListedIn(categories, c, i) ==
    \E k \in 1..Len(categories[i].channels) : categories[i].channels[k] = c

InTwoCategories(categories) ==
    \E i, j \in 1..Len(categories) :
        i # j /\ \E k \in 1..Len(categories[i].channels) :
                    ListedIn(categories, categories[i].channels[k], j)

RequestedRoutingResolves(p) ==
    IsSome(data[p].system_messages) =>
        \A k \in EventKindSet :
            IsSome(Unwrap(data[p].system_messages)[k]) =>
                Unwrap(Unwrap(data[p].system_messages)[k]) \in Members(p)

\* C7: an admitted request whose categories list names one channel in two
\* categories fails and writes nothing to storage, with InvalidOperation
\* once validation reaches the categories (the routing targets resolve and
\* no collaborator call failed before); and no channel is in two stored
\* categories.
C7_DuplicateAcrossCategoriesRejected ==
    /\ \A p \in Running :
          (/\ Done(p) /\ Admitted(p) /\ IsSome(data[p].categories)
           /\ InTwoCategories(Unwrap(data[p].categories))) =>
              /\ result[p] # "Ok"
              /\ db_server = read[p].server
              /\ (RequestedRoutingResolves(p) /\ result[p] # "DatabaseError")
                    => result[p] = "InvalidOperation"
    /\ IsSome(db_server.categories) => ~InTwoCategories(Unwrap(db_server.categories))

C7_Witness ==
    \E p \in Running :
        /\ Done(p) /\ IsSome(data[p].categories)
        /\ InTwoCategories(Unwrap(data[p].categories))
        /\ \A i \in 1..Len(Unwrap(data[p].categories)) :
              Len(Unwrap(data[p].categories)[i].channels) = 1
        /\ result[p] = "InvalidOperation" /\ db_server = read[p].server

\* C8: an admitted request whose routing table has an entry naming a
\* channel outside the server's channel list fails and commits nothing,
\* with NotFound unless a collaborator call failed before; and every entry
\* of a stored routing table is a member channel.
C8_RoutingMustResolve ==
    /\ \A p \in Running :
          (Done(p) /\ Admitted(p) /\ ~RequestedRoutingResolves(p)) =>
              /\ db_server = read[p].server
              /\ result[p] \in {"NotFound", "DatabaseError"}
    /\ IsSome(db_server.system_messages) =>
          \A k \in EventKindSet :
              IsSome(Unwrap(db_server.system_messages)[k]) =>
                  Contains(db_server.channels, Unwrap(Unwrap(db_server.system_messages)[k]))

C8_Witness ==
    \E p \in Running :
        /\ Done(p) /\ ~RequestedRoutingResolves(p)
        /\ IsSome(Unwrap(data[p].system_messages)["user_joined"])
        /\ Unwrap(Unwrap(data[p].system_messages)["user_joined"]) \in Members(p)
        /\ result[p] = "NotFound" /\ db_server = read[p].server

\* out holds exactly the members among the entries of in, in their order.
RECURSIVE MembersInOrder(_, _, _)
MembersInOrder(out, in, members) ==
    IF in = <<>> THEN out = <<>>
    ELSE IF Head(in) \in members
         THEN out # <<>> /\ Head(out) = Head(in) /\ MembersInOrder(Tail(out), Tail(in), members)
         ELSE MembersInOrder(out, Tail(in), members)

\* C9: after a successful request that sets categories, the stored list has
\* the requested categories, each with the requested channels that are in
\* the server's channel list, in their requested order, the others dropped
\* without an error.
C9_NonMembersDroppedInOrder ==
    \A p \in Running :
        (Done(p) /\ result[p] = "Ok" /\ IsSome(data[p].categories)) =>
            LET requested == Unwrap(data[p].categories)
            IN /\ IsSome(db_server.categories)
               /\ Len(Unwrap(db_server.categories)) = Len(requested)
               /\ \A i \in 1..Len(requested) :
                     LET stored == Unwrap(db_server.categories)[i]
                     IN /\ stored.id = requested[i].id
                        /\ stored.title = requested[i].title
                        /\ MembersInOrder(stored.channels, requested[i].channels, Members(p))

C9_Witness ==
    \E p \in Running :
        /\ Done(p) /\ result[p] = "Ok"
        /\ data[p].categories = Some(<<Category("a", <<"c1", "c9">>)>>)
        /\ db_server.categories = Some(<<Category("a", <<"c1">>)>>)

\* C10: after a successful request whose remove list has Icon (Banner)
\* while the server holds a bound icon (banner) f, f is marked for deletion
\* and the stored icon (banner) is cleared.
C10_RemovedAttachmentMarkedAndCleared ==
    \A p \in Running :
        (Done(p) /\ result[p] = "Ok") =>
            /\ (Removes(p, "Icon") /\ IsSome(read[p].server.icon)
                /\ read[p].files[Unwrap(read[p].server.icon)] = "bound") =>
                  /\ attachments[Unwrap(read[p].server.icon)] = "deleted"
                  /\ IsNone(db_server.icon)
            /\ (Removes(p, "Banner") /\ IsSome(read[p].server.banner)
                /\ read[p].files[Unwrap(read[p].server.banner)] = "bound") =>
                  /\ attachments[Unwrap(read[p].server.banner)] = "deleted"
                  /\ IsNone(db_server.banner)

C10_Witness ==
    \E p \in Running :
        /\ Done(p) /\ result[p] = "Ok"
        /\ data[p].remove = Some({"Icon"})
        /\ read[p].server.icon = Some("f1") /\ read[p].files["f1"] = "bound"
        /\ attachments["f1"] = "deleted" /\ IsNone(db_server.icon)

\* The collaborator calls of req.
CollaboratorCalls == {"mark_attachment_as_deleted", "use_server_icon", "use_banner", "update"}

LastCall(p) == calls[p][Len(calls[p])]

\* C13: a stored field differs from what a request found only once the
\* request has returned Ok: a request stopped at any step before its commit,
\* or ended by an error, has changed no stored field; and a collaborator's
\* failure ends the request with that collaborator's error.
C13_NoStoredChangeBeforeSuccess ==
    \A p \in Running :
        /\ db_server # read[p].server => (Done(p) /\ result[p] = "Ok")
        /\ (Done(p) /\ result[p] = "DatabaseError") =>
              /\ calls[p] # <<>>
              /\ LastCall(p)[1] \in CollaboratorCalls

C13_Witness ==
    \E p \in Running :
        /\ Done(p) /\ result[p] = "DatabaseError"
        /\ LastCall(p) = <<"update", "server">>
        /\ IsSome(data[p].name) /\ IsSome(data[p].icon)
        /\ attachments # read[p].files
        /\ db_server = read[p].server

CallsNamed(p, names) == {i \in 1..Len(calls[p]) : calls[p][i][1] \in names}

\* The one commit is the last call, and every mark call is made before
\* every bind call.
OneCommitLast(p) ==
    /\ CallsNamed(p, {"update"}) = {Len(calls[p])}
    /\ \A i \in CallsNamed(p, {"mark_attachment_as_deleted"}),
          j \in CallsNamed(p, {"use_server_icon", "use_banner"}) : i < j

\* Storage holds every field the request assigned and none it cleared.
CarriesEveryField(p) ==
    /\ \A f \in {"description", "system_messages", "flags", "icon", "banner"} :
          IsSome(data[p][f]) => db_server[f] = data[p][f]
    /\ \A f \in {"name", "analytics", "discoverable"} :
          IsSome(data[p][f]) => db_server[f] = Unwrap(data[p][f])
    /\ IsSome(data[p].categories) => IsSome(db_server.categories)
    /\ \A token \in FieldsServer : Removes(p, token) => IsNone(db_server[FieldOf(token)])

\* C14 as stated: every successful request makes exactly one commit, which
\* carries all its assigned and cleared fields and is its last side effect,
\* every mark call coming before every bind call.
C14_EverySuccessCommitsOnce ==
    \A p \in Running :
        (Done(p) /\ result[p] = "Ok") => (OneCommitLast(p) /\ CarriesEveryField(p))

\* C14, amended: the same of every successful request that has at least one
\* field or a remove list; the request with neither succeeds without a commit.
C14_NonEmptySuccessCommitsOnce ==
    \A p \in Running :
        /\ (Done(p) /\ result[p] = "Ok" /\ data[p] # NoData) =>
              (OneCommitLast(p) /\ CarriesEveryField(p))
        /\ (Done(p) /\ result[p] = "Ok" /\ data[p] = NoData) =>
              CallsNamed(p, CollaboratorCalls) = {}

C14_Witness ==
    \E p \in Running :
        /\ Done(p) /\ result[p] = "Ok"
        /\ calls[p] = <<<<"throw_permission", "ManageServer">>,
                        <<"mark_attachment_as_deleted", "f2">>,
                        <<"use_server_icon", "f3">>,
                        <<"update", "server">>>>
        /\ db_server.icon = Some("f3") /\ IsNone(db_server.banner)

AttachmentFields == {"icon", "banner"}

TokenOf(field) == IF field = "icon" THEN "Icon" ELSE "Banner"

\* The request replaced the attachment of field: it assigned a new one over
\* one the server held, and succeeded.
Replaced(p, field) ==
    /\ Done(p) /\ result[p] = "Ok"
    /\ IsSome(data[p][field])
    /\ IsSome(read[p].server[field])
    /\ read[p].server[field] # data[p][field]

\* C15: a mark call is made only for the attachment held by an icon or
\* banner field that the remove list names, and a request that assigns a new
\* icon or banner over an existing one binds the new attachment and leaves
\* the replaced one as it was, bound, referenced by no field of the server.
C15_MarkOnlyForRemovedAttachment ==
    \A p \in Running :
        /\ \A i \in CallsNamed(p, {"mark_attachment_as_deleted"}) :
              \E field \in AttachmentFields :
                  /\ Removes(p, TokenOf(field))
                  /\ read[p].server[field] = Some(calls[p][i][2])
        /\ \A field \in AttachmentFields :
              Replaced(p, field) =>
                  LET old == Unwrap(read[p].server[field])
                      new == Unwrap(data[p][field])
                  IN /\ attachments[old] = "bound"
                     /\ attachments[new] = "bound"
                     /\ read[p].files[new] = "pending"
                     /\ db_server[field] = Some(new)
                     /\ \A f \in AttachmentFields : db_server[f] # Some(old)
                     /\ \A i \in 1..Len(calls[p]) :
                           calls[p][i] # <<"mark_attachment_as_deleted", old>>

C15_Witness ==
    \E p \in Running :
        /\ Replaced(p, "icon")
        /\ read[p].server.icon = Some("f1") /\ data[p].icon = Some("f3")
        /\ attachments["f1"] = "bound" /\ attachments["f3"] = "bound"
        /\ db_server.icon = Some("f3")

\* The i-th call of the request returned without an error: the request went
\* on after it, or ended with a result other than that call's failure.
CallSucceeded(p, i) ==
    ~(Done(p) /\ result[p] = "DatabaseError" /\ i = Len(calls[p]))

\* C16: nothing undoes a mark: once a mark call has succeeded, and for as
\* long as the request has not committed (it is still running, it was
\* rejected, or a later call or the commit itself failed), the attachment is
\* marked for deletion while the stored server still references it.
C16_MarkNotCompensated ==
    \A p \in Running :
        \A i \in CallsNamed(p, {"mark_attachment_as_deleted"}) :
            (CallSucceeded(p, i) /\ ~(Done(p) /\ result[p] = "Ok")) =>
                /\ attachments[calls[p][i][2]] = "deleted"
                /\ \E field \in AttachmentFields : db_server[field] = Some(calls[p][i][2])

C16_Witness ==
    \E p \in Running :
        /\ Done(p) /\ result[p] = "DatabaseError"
        /\ calls[p] = <<<<"throw_permission", "ManageServer">>,
                        <<"mark_attachment_as_deleted", "f1">>,
                        <<"update", "server">>>>
        /\ attachments["f1"] = "deleted"
        /\ db_server.icon = Some("f1")

\* The channel ids of a categories list, as requested, in one sequence.
RECURSIVE RequestedChannels(_)
RequestedChannels(categories) ==
    IF categories = <<>> THEN <<>>
    ELSE Head(categories).channels \o RequestedChannels(Tail(categories))

NamedTwice(ids) == \E i, j \in 1..Len(ids) : i # j /\ ids[i] = ids[j]

\* C17: an admitted request whose categories list names any channel id
\* twice, in one category or in two, a channel of the server or not, fails
\* and writes nothing to storage, with InvalidOperation once validation
\* reaches the categories; and a request fails with InvalidOperation only
\* for such a list or for a field both assigned and removed.
C17_DuplicateAnywhereRejected ==
    \A p \in Running :
        /\ (/\ Done(p) /\ Admitted(p) /\ IsSome(data[p].categories)
            /\ NamedTwice(RequestedChannels(Unwrap(data[p].categories)))) =>
               /\ result[p] # "Ok"
               /\ db_server = read[p].server
               /\ (RequestedRoutingResolves(p) /\ result[p] # "DatabaseError")
                     => result[p] = "InvalidOperation"
        /\ (Done(p) /\ result[p] = "InvalidOperation") =>
               \/ /\ IsSome(data[p].categories)
                  /\ NamedTwice(RequestedChannels(Unwrap(data[p].categories)))
               \/ \E token \in FieldsServer :
                     Removes(p, token) /\ FieldOf(token) \in Assigned(p)

C17_Witness ==
    \E p \in Running :
        /\ Done(p) /\ result[p] = "InvalidOperation"
        /\ data[p].categories = Some(<<Category("a", <<"c9", "c9">>)>>)
        /\ "c9" \notin Members(p)
        /\ db_server = read[p].server

\* The gates a request violates: the general-attribute capability, the
\* privilege, the structural capability.
LacksManageServer(p) ==
    /\ \/ Assigned(p) \cap {"name", "description", "icon", "banner",
                            "system_messages", "analytics"} # {}
       \/ IsSome(data[p].remove)
    /\ "ManageServer" \notin permissions[p]

LacksPrivilege(p) ==
    Assigned(p) \cap {"flags", "discoverable"} # {} /\ ~user[p].privileged

LacksManageChannel(p) ==
    "categories" \in Assigned(p) /\ "ManageChannel" \notin permissions[p]

\* C18: of the gates a request violates the first in the order
\* ManageServer, privilege, ManageChannel gives the error, a request
\* stopped by a gate has made no collaborator call, and NotFound or
\* InvalidOperation is returned only to a request that violates no gate.
C18_ErrorPrecedence ==
    \A p \in Running :
        (Done(p) /\ result[p] # "FailedValidation") =>
            /\ LacksManageServer(p) => result[p] = "PermissionDenied(ManageServer)"
            /\ (~LacksManageServer(p) /\ LacksPrivilege(p)) => result[p] = "NotPrivileged"
            /\ (~LacksManageServer(p) /\ ~LacksPrivilege(p) /\ LacksManageChannel(p))
                  => result[p] = "PermissionDenied(ManageChannel)"
            /\ result[p] \in GateErrors =>
                  /\ CallsNamed(p, CollaboratorCalls) = {}
                  /\ Untouched(p)
            /\ result[p] \in {"NotFound", "InvalidOperation"} =>
                  ~(LacksManageServer(p) \/ LacksPrivilege(p) \/ LacksManageChannel(p))

C18_Witness ==
    \E p \in Running :
        /\ Done(p) /\ result[p] = "PermissionDenied(ManageServer)"
        /\ LacksManageServer(p) /\ LacksPrivilege(p)
        /\ calls[p] = <<<<"throw_permission", "ManageServer">>>>

\* The fields a request assigns or clears, and the attachments it names.
Touched(p) == Assigned(p) \cup {FieldOf(token) : token \in {t \in FieldsServer : Removes(p, t)}}

NamedAttachments(p) == {Unwrap(data[p][f]) : f \in AttachmentFields \cap Assigned(p)}

\* The request is one that succeeds on the server as it found it.
ValidAlone(p) ==
    /\ IsSome(data[p].remove) => Unwrap(data[p].remove) # {}
    /\ ~(LacksManageServer(p) \/ LacksPrivilege(p) \/ LacksManageChannel(p))
    /\ RequestedRoutingResolves(p)
    /\ IsSome(data[p].categories) => ~NamedTwice(RequestedChannels(Unwrap(data[p].categories)))
    /\ ~BothAssignedAndRemoved(p)
    /\ \A id \in NamedAttachments(p) : read[p].files[id] = "pending"

DisjointEdits ==
    /\ Touched(1) # {} /\ Touched(2) # {}
    /\ Touched(1) \cap Touched(2) = {}
    /\ NamedAttachments(1) \cap NamedAttachments(2) = {}

\* C11: of two requests in flight together that touch disjoint fields and
\* name no attachment in common, each valid on the server it found, neither
\* is rejected (each ends Ok unless a collaborator call of its own failed),
\* and once both have returned storage holds every field of each committed
\* request as that request set or cleared it, in any interleaving, every
\* field touched by no committed request being as it was.
C11_DisjointEditsBothCommit ==
    (/\ \A p \in Procs : Done(p) /\ ValidAlone(p)
     /\ DisjointEdits) =>
        /\ \A p \in Procs : result[p] \in {"Ok", "DatabaseError"}
        /\ \A p \in Procs : result[p] = "Ok" => CarriesEveryField(p)
        /\ \A f \in DOMAIN db_server :
              (\A p \in Procs : result[p] = "Ok" => f \notin Touched(p)) =>
                  \A p \in Procs : db_server[f] = read[p].server[f]

C11_Witness ==
    /\ \A p \in Procs : Done(p) /\ result[p] = "Ok"
    /\ data[1].name = Some("n1") /\ data[2].description = Some("d1")
    /\ DisjointEdits
    /\ read[1].server = read[2].server
    /\ read[1].server.name = "n0" /\ read[1].server.description = Some("d0")
    /\ db_server.name = "n1" /\ db_server.description = Some("d1")

====
